---- MODULE Spec2Model ----
(***************************************************************************)
(* PointPillars pre-processing (src/src/point_pillars.cpp).                *)
(*                                                                         *)
(*   createPillars        points -> (feature tensor, index tensor)         *)
(*   createPillarsTarget  label boxes x anchors -> target tensor           *)
(*                                                                         *)
(* Numbers.  The program computes in IEEE single precision.  Every float   *)
(* that occurs in the model is an integer, and the float operators below   *)
(* round as a 24-bit significand rounds (round to nearest, ties to even).  *)
(* createPillars is run on a grid whose coordinates lie in [2^23, 2^24),   *)
(* where consecutive floats are exactly 1 apart, so that sums and means    *)
(* of coordinates round the way the compiled program rounds them.          *)
(***************************************************************************)
EXTENDS Integers, Sequences, FiniteSets, TLC

\* ------------------------------------------------------------------------
\* Bounds of the model
\* ------------------------------------------------------------------------
MaxPoints == 3
MaxPillarsBound == 2
MaxPointsPerPillarBound == 2
MaxObjects == 2
MaxAnchors == 2

MaxYawSteps == 8

\* ------------------------------------------------------------------------
\* Single-precision arithmetic on integer-valued floats
\* ------------------------------------------------------------------------
FloatMantissaBits == 24

RECURSIVE TwoPow(_)
TwoPow(n) == IF n = 0 THEN 1 ELSE 2 * TwoPow(n - 1)

Abs(v) == IF v < 0 THEN -v ELSE v

Min(a, b) == IF a < b THEN a ELSE b

Max(a, b) == IF a < b THEN b ELSE a

\* Integers of magnitude below FloatRadix are floats.
FloatRadix == TwoPow(FloatMantissaBits)

\* Spacing of the floats around a magnitude v >= 2^23: 1 below 2^24, then
\* doubling with every binade.
RECURSIVE UlpOf(_, _)
UlpOf(v, u) == IF v < FloatRadix * u THEN u ELSE UlpOf(v, 2 * u)

\* num/den rounded to the nearest multiple of u, ties to the even multiple.
RoundHalfEven(num, den, u) ==
  LET q == num \div (den * u)
      r == num % (den * u)
  IN  IF 2 * r < den * u THEN q * u
      ELSE IF 2 * r > den * u THEN (q + 1) * u
      ELSE IF q % 2 = 0 THEN q * u ELSE (q + 1) * u

\* The float nearest to the integer v.
RoundToFloat(v) ==
  IF v >= 0 THEN RoundHalfEven(v, 1, UlpOf(v, 1))
  ELSE -RoundHalfEven(-v, 1, UlpOf(-v, 1))

\* float + float, float - float
FloatAdd(a, b) == RoundToFloat(a + b)

FloatSub(a, b) == RoundToFloat(a - b)

\* float / size (the sum of a pillar divided by its point count); the
\* quotient has magnitude >= 2^23, so the result is an integer-valued float.
FloatDivSize(s, n) ==
  IF s >= 0 THEN RoundHalfEven(s, n, UlpOf(s \div n, 1))
  ELSE -RoundHalfEven(-s, n, UlpOf((-s) \div n, 1))

\* std::floor(a / step) for a step that is a power of two: the float
\* division is exact and its floor is the integer quotient.
FloorDiv(a, step) == a \div step

\* std::pow(x,2) + std::pow(y,2) < std::pow(d,2), computed in double, where
\* the squares and the sum of floats up to 2^24 are exact.  The squares are
\* kept in three base-4096 limbs.
SqLimbs(a) ==
  LET m == Abs(a)
      hi == m \div 4096
      lo == m % 4096
  IN  <<hi * hi, 2 * hi * lo, lo * lo>>

LimbNorm(c) ==
  LET t1 == c[2] + (c[3] \div 4096)
  IN  <<c[1] + (t1 \div 4096), t1 % 4096, c[3] % 4096>>

LimbLess(a, b) ==
  \/ a[1] < b[1]
  \/ a[1] = b[1] /\ a[2] < b[2]
  \/ a[1] = b[1] /\ a[2] = b[2] /\ a[3] < b[3]

SumSqLess(x, y, d) ==
  LET sx == SqLimbs(x)
      sy == SqLimbs(y)
  IN  LimbLess(LimbNorm(<<sx[1] + sy[1], sx[2] + sy[2], sx[3] + sy[3]>>),
               LimbNorm(SqLimbs(d)))

\* clamp(v, lo, hi)
clamp(v, lo, hi) == IF v < lo THEN lo ELSE IF hi < v THEN hi ELSE v

\* ------------------------------------------------------------------------
\* Inputs of createPillars
\* ------------------------------------------------------------------------
\* Grid of the pillar encoder: two cells of width 4 in x and in y.
PillarGrid ==
  [xMin |-> 12582906, xMax |-> 12582914, xStep |-> 4,
   yMin |-> 8388616,  yMax |-> 8388624,  yStep |-> 4,
   zMin |-> 8388616,  zMax |-> 8388620]

\* Rows (x, y, z, intensity, r, g, b) the input array is drawn from: four
\* rows inside the grid, four outside it.
PointPool ==
  { <<12582906, 8388616, 8388616, 0, 1, 2, 3>>,
    <<12582910, 8388616, 8388616, 2, 4, 5, 6>>,
    <<12582913, 8388616, 8388617, 1, 7, 8, 9>>,
    <<12582910, 8388620, 8388616, -1, 1, 1, 1>>,
    <<12582905, 8388616, 8388616, 1, 2, 2, 2>>,
    <<12582914, 8388616, 8388616, 1, 3, 3, 3>>,
    <<12582906, 8388624, 8388616, 1, 4, 4, 4>>,
    <<12582906, 8388616, 8388620, 1, 5, 5, 5>> }

\* Rows used for arrays whose column count is neither 4 nor 7.
OddPool == { <<12582906, 8388616, 8388616, 0, 1, 2, 3, 4>> }

ColumnCounts == {3, 4, 5, 7, 8}

\* minDistance: disabled (the default -1), or a radius that separates the
\* rows of the pool.
MinDistances == {-1, 15122780}

RowsOf(c) ==
  { SubSeq(r, 1, c) : r \in (IF c \in {4, 7} THEN PointPool ELSE OddPool) }

SeqsUpTo(S, n) == UNION { [1..k -> S] : k \in 0..n }

\* The input arrays: up to MaxPoints rows of c columns, at most one of them
\* outside the grid.
Outside(r) ==
  \/ r[1] < PillarGrid.xMin \/ r[1] >= PillarGrid.xMax
  \/ r[2] < PillarGrid.yMin \/ r[2] >= PillarGrid.yMax
  \/ r[3] < PillarGrid.zMin \/ r[3] >= PillarGrid.zMax

PointArrays(c) ==
  { s \in SeqsUpTo(RowsOf(c), MaxPoints) :
      \A j, k \in DOMAIN s : (Outside(s[j]) /\ Outside(s[k])) => j = k }

\* ------------------------------------------------------------------------
\* State
\* ------------------------------------------------------------------------
VARIABLES
  pc,                  \* position in createPillars
  points,              \* the input array, a sequence of rows
  cols,                \* points.shape()[1]
  maxPointsPerPillar,
  maxPillars,
  minDistance,
  grid,                \* xStep, yStep, xMin, xMax, yMin, yMax, zMin, zMax
  i,                   \* input rows consumed by the binning loop
  map,                 \* cell key -> points of the cell, in insertion order
  tensor,              \* [pillar slot -> [point slot -> feature row]]
  indices,             \* [pillar slot -> <<batch, xIndex, yIndex>>]
  pillarId,            \* next pillar slot
  emitted,             \* history: per written slot, its key and row count
  outcome,             \* how the call ended
  \* createPillarsTarget
  objects,             \* rows of objectPositions/Dimensions/Yaws/ClassIds
  anchors,             \* rows of anchorDimensions/ZHeights/Yaws
  positiveThreshold,
  negativeThreshold,
  angle_threshold,
  downscalingFactor,
  labelBoxes,          \* the retained ground-truth boxes
  anchorBoxes,         \* the working copies of the anchors
  objectCount,
  cursor,              \* position in the search loop nest of the object
  maxIou,
  bestAnchor,
  bestAnchorId,
  searched,            \* history: per entry, the label writes of the search
                       \* loop, the last label written and its IOU
  fallbacks,           \* history: per processed object, whether the fallback
                       \* ran, the best anchor, and the entries it changed
  \* a single call of iou, or of the encoding of a positive match
  boxA,
  boxB,
  result

pillarVars == <<points, cols, maxPointsPerPillar, maxPillars, minDistance,
                i, map, indices, pillarId, emitted>>

targetInputs == <<objects, anchors, positiveThreshold, negativeThreshold,
                  angle_threshold, downscalingFactor>>

targetVars == <<targetInputs, labelBoxes, anchorBoxes, objectCount, cursor,
                maxIou, bestAnchor, bestAnchorId, searched, fallbacks>>

callVars == <<boxA, boxB, result>>

vars == <<pc, grid, tensor, outcome, pillarVars, targetVars, callVars>>

inputVars == <<points, cols, maxPointsPerPillar, maxPillars, minDistance, grid,
               targetVars, callVars>>

NoMap == [k \in {} |-> <<>>]

\* BoundingBox3D bestAnchor = {}
ZeroBox ==
  [x |-> 0, y |-> 0, z |-> 0, length |-> 0, width |-> 0, height |-> 0,
   yaw |-> 0, base_yaw |-> 0, classId |-> 0]

\* State of createPillarsTarget before the call.
TargetIdle ==
  /\ labelBoxes = <<>>
  /\ anchorBoxes = <<>>
  /\ objectCount = 0
  /\ cursor = 0
  /\ maxIou = <<0, 1>>
  /\ bestAnchor = ZeroBox
  /\ bestAnchorId = 0
  /\ searched = NoMap
  /\ fallbacks = <<>>

\* No single call is under way.
CallIdle ==
  /\ boxA = ZeroBox
  /\ boxB = ZeroBox
  /\ result = <<>>

Init ==
  /\ pc = "start"
  /\ cols \in ColumnCounts
  /\ points \in PointArrays(cols)
  /\ maxPointsPerPillar \in 0..MaxPointsPerPillarBound
  /\ maxPillars \in 0..MaxPillarsBound
  /\ minDistance \in MinDistances
  /\ grid = PillarGrid
  /\ i = 0
  /\ map = NoMap
  /\ tensor = <<>>
  /\ indices = <<>>
  /\ pillarId = 0
  /\ emitted = <<>>
  /\ outcome = "running"
  /\ objects = <<>>
  /\ anchors = <<>>
  /\ positiveThreshold = <<1, 2>>
  /\ negativeThreshold = <<1, 4>>
  /\ angle_threshold = 0
  /\ downscalingFactor = 1
  /\ TargetIdle
  /\ CallIdle

\* ------------------------------------------------------------------------
\* createPillars
\* ------------------------------------------------------------------------
\* Neither branch is taken: control reaches the closing brace of a function
\* that returns a value without a return statement.  The behaviour is
\* undefined; the outcomes are an exception, a crash, or a normal return of
\* an indeterminate object.
UndefinedOutcomes == {"input_error", "crashed", "returned_indeterminate"}

FallOffEnd ==
  /\ pc = "start"
  /\ cols \notin {4, 7}
  /\ pc' = "done"
  /\ outcome' \in UndefinedOutcomes
  /\ UNCHANGED <<inputVars, i, map, tensor, indices, pillarId, emitted>>

\* Variant: the upper x bound is inclusive.
OutOfBounds_InclusiveMax(p) ==
  \/ p[1] < grid.xMin \/ p[1] > grid.xMax
  \/ p[2] < grid.yMin \/ p[2] >= grid.yMax
  \/ p[3] < grid.zMin \/ p[3] >= grid.zMax

\* The bounds test of both branches.
OutOfBounds(p) ==
  \/ p[1] < grid.xMin \/ p[1] >= grid.xMax
  \/ p[2] < grid.yMin \/ p[2] >= grid.yMax
  \/ p[3] < grid.zMin \/ p[3] >= grid.zMax

\* The radial test of the 4-column branch.
TooClose(p) == minDistance > 0 /\ SumSqLess(p[1], p[2], minDistance)

Rejected4(p) == OutOfBounds(p) \/ TooClose(p)

Rejected7(p) == OutOfBounds(p)

\* static_cast<uint32_t>(floor((v - vMin) / vStep)) of an accepted point.
CellKey(p) ==
  << FloorDiv(FloatSub(p[1], grid.xMin), grid.xStep),
     FloorDiv(FloatSub(p[2], grid.yMin), grid.yStep) >>

PillarPoint(p) ==
  [x |-> p[1], y |-> p[2], z |-> p[3], intensity |-> clamp(p[4], 0, 1),
   xc |-> 0, yc |-> 0, zc |-> 0]

PillarPointRGB(p) ==
  [x |-> p[1], y |-> p[2], z |-> p[3], intensity |-> clamp(p[4], 0, 1),
   xc |-> 0, yc |-> 0, zc |-> 0, r |-> p[5], g |-> p[6], b |-> p[7]]

\* Variant: the point is inserted at the front of the cell's list.
MapInsert_Front(m, key, p) ==
  IF key \in DOMAIN m THEN [m EXCEPT ![key] = <<p>> \o @]
  ELSE m @@ (key :> <<p>>)

\* map[{xIndex, yIndex}].emplace_back(p)
MapInsert(m, key, p) ==
  IF key \in DOMAIN m THEN [m EXCEPT ![key] = Append(@, p)]
  ELSE m @@ (key :> <<p>>)

FeatureCount == IF cols = 4 THEN 9 ELSE 12

ZeroRow == [c \in 1..FeatureCount |-> 0]

\* The binning loop of the 4-column branch over the first n input rows.
RECURSIVE BinPoints4(_)
BinPoints4(n) ==
  IF n = 0 THEN NoMap
  ELSE LET m == BinPoints4(n - 1)
           p == points[n]
       IN  IF Rejected4(p) THEN m
           ELSE MapInsert(m, CellKey(p), PillarPoint(p))

\* The binning loop of the 7-column branch over the first n input rows.
RECURSIVE BinPoints7(_)
BinPoints7(n) ==
  IF n = 0 THEN NoMap
  ELSE LET m == BinPoints7(n - 1)
           p == points[n]
       IN  IF Rejected7(p) THEN m
           ELSE MapInsert(m, CellKey(p), PillarPointRGB(p))

\* tensor.resize, indices.resize and the two zero-fill loops.
Allocate ==
  /\ tensor' = [s \in 0..(maxPillars - 1) |->
                  [q \in 0..(maxPointsPerPillar - 1) |-> ZeroRow]]
  /\ indices' = [s \in 0..(maxPillars - 1) |-> <<0, 0, 0>>]
  /\ pillarId' = 0

\* if (shape[1] == 4): bin every row, then allocate the zeroed outputs.
Bin4 ==
  /\ pc = "start"
  /\ cols = 4
  /\ map' = BinPoints4(Len(points))
  /\ i' = Len(points)
  /\ Allocate
  /\ pc' = "emit"
  /\ UNCHANGED <<inputVars, emitted, outcome>>

\* else if (shape[1] == 7): bin every row, then allocate the zeroed outputs.
Bin7 ==
  /\ pc = "start"
  /\ cols = 7
  /\ map' = BinPoints7(Len(points))
  /\ i' = Len(points)
  /\ Allocate
  /\ pc' = "emit"
  /\ UNCHANGED <<inputVars, emitted, outcome>>

\* xMean += p.x over the points of the cell, starting from 0.
RECURSIVE FloatSum(_, _)
FloatSum(vals, n) ==
  IF n = 0 THEN 0 ELSE FloatAdd(FloatSum(vals, n - 1), vals[n])

\* The centroid coordinate of a cell: float sum, divided by size().
FloatMean(vals) == FloatDivSize(FloatSum(vals, Len(vals)), Len(vals))

Coord(pts, f) == [k \in 1..Len(pts) |-> pts[k][f]]

\* p.xc = p.x - xMean, ...
WithCentroid(pts) ==
  LET xMean == FloatMean(Coord(pts, "x"))
      yMean == FloatMean(Coord(pts, "y"))
      zMean == FloatMean(Coord(pts, "z"))
  IN  [k \in 1..Len(pts) |->
         [pts[k] EXCEPT !.xc = FloatSub(pts[k].x, xMean),
                        !.yc = FloatSub(pts[k].y, yMean),
                        !.zc = FloatSub(pts[k].z, zMean)]]

\* static_cast<int>(floor((xMean - xMin) / xStep)), and the same in y.
CentroidIndex(pts) ==
  << FloorDiv(FloatSub(FloatMean(Coord(pts, "x")), grid.xMin), grid.xStep),
     FloorDiv(FloatSub(FloatMean(Coord(pts, "y")), grid.yMin), grid.yStep) >>

\* The feature row of one point of a pillar.
FeatureRow(p, idx) ==
  LET base == << p.x, p.y, p.z, p.intensity, p.xc, p.yc, p.zc,
                 FloatSub(p.x, FloatAdd(idx[1] * grid.xStep, grid.xMin)),
                 FloatSub(p.y, FloatAdd(idx[2] * grid.yStep, grid.yMin)) >>
  IN  IF cols = 4 THEN base ELSE base \o <<p.r, p.g, p.b>>

\* Variant: the point loop has no break.
RowsWritten_NoBreak(n) == n

\* Number of rows the point loop writes for a cell of n points.
RowsWritten(n) == Min(n, maxPointsPerPillar)

\* One iteration of the pillar loop.  The unordered_map is iterated in an
\* unspecified order: the next cell is any cell not yet visited.
EmitPillar ==
  /\ pc = "emit"
  /\ pillarId < maxPillars
  /\ \E key \in DOMAIN map \ { emitted[k].key : k \in 1..Len(emitted) } :
       \E pts \in {WithCentroid(map[key])} :
       \E idx \in {CentroidIndex(map[key])} :
       \E n \in {RowsWritten(Len(pts))} :
           /\ map' = [map EXCEPT ![key] = pts]
           /\ indices' = [indices EXCEPT ![pillarId] = <<0, idx[1], idx[2]>>]
           /\ tensor' = [tensor EXCEPT ![pillarId] =
                           [q \in DOMAIN @ |->
                              IF q < n THEN FeatureRow(pts[q + 1], idx)
                              ELSE @[q]]]
           /\ emitted' = Append(emitted, [key |-> key, rows |-> n])
  /\ pillarId' = pillarId + 1
  /\ UNCHANGED <<pc, inputVars, i, outcome>>

\* The pillar loop ends (break, or no cell left) and the tuple is returned.
Return ==
  /\ pc = "emit"
  /\ \/ pillarId >= maxPillars
     \/ DOMAIN map = { emitted[k].key : k \in 1..Len(emitted) }
  /\ pc' = "done"
  /\ outcome' = "returned"
  /\ UNCHANGED <<inputVars, i, map, tensor, indices, pillarId, emitted>>

\* ------------------------------------------------------------------------
\* Properties of createPillars
\* ------------------------------------------------------------------------
InGrid(x, y, z) ==
  /\ grid.xMin <= x /\ x < grid.xMax
  /\ grid.yMin <= y /\ y < grid.yMax
  /\ grid.zMin <= z /\ z < grid.zMax

Returned == pc = "done" /\ outcome = "returned"

EmittedKeys == { emitted[k].key : k \in 1..Len(emitted) }

\* Rows of a pillar slot that differ from the zero fill.
FilledRows(s) ==
  LET zero == ZeroRow
  IN  { q \in DOMAIN tensor[s] : tensor[s][q] # zero }

\* Slots of the index tensor / feature tensor that were written.
FilledSlots == { s \in DOMAIN tensor : FilledRows(s) # {} }

\* C1: the number of pillar slots written is at most maxPillars and equals
\* min(occupied cells, maxPillars) on return; the number of rows written in
\* a slot is at most maxPointsPerPillar and equals min(points of the cell,
\* maxPointsPerPillar), whatever order the cell map is iterated in.
C1_Capacity ==
  /\ Len(emitted) <= maxPillars
  /\ Len(emitted) = pillarId
  /\ \A k \in 1..Len(emitted) :
       /\ emitted[k].rows <= maxPointsPerPillar
       /\ emitted[k].rows = Min(Len(map[emitted[k].key]), maxPointsPerPillar)
       /\ Cardinality(FilledRows(k - 1)) = emitted[k].rows
  /\ Cardinality(FilledSlots) <= maxPillars
  /\ Returned => Len(emitted) = Min(Cardinality(DOMAIN map), maxPillars)

C1_Witness ==
  /\ Returned
  /\ maxPillars >= 1 /\ maxPointsPerPillar >= 1
  /\ Cardinality(DOMAIN map) > maxPillars
  /\ \E k \in 1..Len(emitted) :
       Len(map[emitted[k].key]) > maxPointsPerPillar

\* C2: a point outside [xMin,xMax) x [yMin,yMax) x [zMin,zMax) is never in
\* the cell map and never a row of the feature tensor, in the 4-column and
\* in the 7-column branch; every key of the map has xIndex >= 0, yIndex >= 0.
C2_OutOfBoundsDropped ==
  /\ \A key \in DOMAIN map :
       /\ key[1] >= 0 /\ key[2] >= 0
       /\ \A k \in 1..Len(map[key]) :
            InGrid(map[key][k].x, map[key][k].y, map[key][k].z)
  /\ \A s \in DOMAIN tensor : \A q \in FilledRows(s) :
       InGrid(tensor[s][q][1], tensor[s][q][2], tensor[s][q][3])
  /\ \A s \in DOMAIN indices : indices[s][2] >= 0 /\ indices[s][3] >= 0

C2_Witness ==
  /\ Returned
  /\ \E k \in 1..Len(points) :
       ~InGrid(points[k][1], points[k][2], points[k][3])
  /\ FilledSlots # {}

\* C3: with a second dimension that is neither 4 nor 7 the call ends in an
\* input error and never completes normally.
C3_InputError ==
  (pc = "done" /\ cols \notin {4, 7}) => outcome = "input_error"

\* C4: when minDistance > 0 every point with x^2 + y^2 < minDistance^2 is
\* rejected before binning, for 4 and for 7 columns; when minDistance <= 0
\* every point inside the bounds is binned.
C4_RadialFilter ==
  /\ \A key \in DOMAIN map : \A k \in 1..Len(map[key]) :
       ~(minDistance > 0
         /\ SumSqLess(map[key][k].x, map[key][k].y, minDistance))
  /\ (minDistance <= 0 /\ cols \in {4, 7}) =>
       \A k \in 1..i :
         InGrid(points[k][1], points[k][2], points[k][3]) =>
           \E key \in DOMAIN map : \E n \in 1..Len(map[key]) :
             /\ map[key][n].x = points[k][1]
             /\ map[key][n].y = points[k][2]
             /\ map[key][n].z = points[k][3]

\* The accepted input rows of one cell, in input-array order.
AcceptedOf(key) ==
  SelectSeq(points,
            LAMBDA r : /\ ~(IF cols = 4 THEN Rejected4(r) ELSE Rejected7(r))
                       /\ CellKey(r) = key)

\* C5: the rows of an emitted pillar are the first min(n, maxPointsPerPillar)
\* accepted points of its cell in input order, at point slots 0, 1, 2, ...;
\* the centroid channels are taken over all n points of the cell.
C5_FirstSeenKept ==
  \A k \in 1..Len(emitted) :
    LET acc == AcceptedOf(emitted[k].key)
        n   == Len(acc)
        m   == Min(n, maxPointsPerPillar)
        xM  == FloatMean([j \in 1..n |-> acc[j][1]])
        yM  == FloatMean([j \in 1..n |-> acc[j][2]])
        zM  == FloatMean([j \in 1..n |-> acc[j][3]])
    IN  \A q \in DOMAIN tensor[k - 1] :
          IF q < m
          THEN /\ tensor[k - 1][q][1] = acc[q + 1][1]
               /\ tensor[k - 1][q][2] = acc[q + 1][2]
               /\ tensor[k - 1][q][3] = acc[q + 1][3]
               /\ tensor[k - 1][q][4] = clamp(acc[q + 1][4], 0, 1)
               /\ tensor[k - 1][q][5] = FloatSub(acc[q + 1][1], xM)
               /\ tensor[k - 1][q][6] = FloatSub(acc[q + 1][2], yM)
               /\ tensor[k - 1][q][7] = FloatSub(acc[q + 1][3], zM)
          ELSE tensor[k - 1][q] = ZeroRow

C5_Witness ==
  /\ Returned
  /\ \E k \in 1..Len(emitted) :
       LET acc == AcceptedOf(emitted[k].key)
       IN  /\ maxPointsPerPillar >= 1
           /\ Len(acc) > maxPointsPerPillar
           /\ acc[1] # acc[Len(acc)]
           /\ tensor[k - 1][0][1] = acc[1][1]

\* C6: the index row of every emitted pillar is [0, xIndex, yIndex] of the
\* cell key its points were binned under, and two emitted pillars never
\* carry the same index row.
C6_IndexIsKey ==
  /\ \A k \in 1..Len(emitted) :
       indices[k - 1] = <<0, emitted[k].key[1], emitted[k].key[2]>>
  /\ \A k1, k2 \in 1..Len(emitted) :
       k1 # k2 => indices[k1 - 1] # indices[k2 - 1]

\* ------------------------------------------------------------------------
\* Geometry: top-down polygons, Sutherland-Hodgman clipping, IOU
\* ------------------------------------------------------------------------
\* Angles are integers in micro-radians.  Boxes have even extents and
\* integer centres, so that every coordinate below is a small integer and
\* the float operations of the program are exact on them.
PiMicro == 3141593

\* std::cos, std::sin at the yaws of the model.
Cos(angle) == CASE angle = 0 -> 1

Sin(angle) == CASE angle = 0 -> 0

\* std::fmod(a, m): the remainder has the sign of a.
FMod(a, m) == IF a >= 0 THEN a % m ELSE -((-a) % m)

\* 0.5 * v for an even v.
Half(v) == v \div 2

rotatedX(x, y, angle) == x * Cos(angle) - y * Sin(angle)

rotatedY(x, y, angle) == x * Sin(angle) + y * Cos(angle)

\* The four corners of the box, clockwise.
boundingBox3DToTopDown(box1) ==
  << << rotatedX(-Half(box1.length), Half(box1.width), box1.yaw) + box1.x,
        rotatedY(-Half(box1.length), Half(box1.width), box1.yaw) + box1.y >>,
     << rotatedX(Half(box1.length), Half(box1.width), box1.yaw) + box1.x,
        rotatedY(Half(box1.length), Half(box1.width), box1.yaw) + box1.y >>,
     << rotatedX(Half(box1.length), -Half(box1.width), box1.yaw) + box1.x,
        rotatedY(Half(box1.length), -Half(box1.width), box1.yaw) + box1.y >>,
     << rotatedX(-Half(box1.length), -Half(box1.width), box1.yaw) + box1.x,
        rotatedY(-Half(box1.length), -Half(box1.width), box1.yaw) + box1.y >> >>

\* num / den of the two intersection routines.  They are called only for a
\* polygon edge that crosses the clip line, where den # 0; on axis-parallel
\* edges with integer end points the quotient is an integer.
xIntersect(x1, y1, x2, y2, x3, y3, x4, y4) ==
  LET num == (x1 * y2 - y1 * x2) * (x3 - x4) - (x1 - x2) * (x3 * y4 - y3 * x4)
      den == (x1 - x2) * (y3 - y4) - (y1 - y2) * (x3 - x4)
  IN  num \div den

yIntersect(x1, y1, x2, y2, x3, y3, x4, y4) ==
  LET num == (x1 * y2 - y1 * x2) * (y3 - y4) - (y1 - y2) * (x3 * y4 - y3 * x4)
      den == (x1 - x2) * (y3 - y4) - (y1 - y2) * (x3 - x4)
  IN  num \div den

\* Shoelace area; the sum over the polygons of the model is even.
RECURSIVE ShoelaceSum(_, _)
ShoelaceSum(polygon, n) ==
  IF n = 0 THEN 0
  ELSE LET j == IF n = 1 THEN Len(polygon) ELSE n - 1
       IN  ShoelaceSum(polygon, n - 1)
           + (polygon[j][1] + polygon[n][1]) * (polygon[j][2] - polygon[n][2])

polygonArea(polygon) == Half(Abs(ShoelaceSum(polygon, Len(polygon))))

\* The points one polygon edge (i, k) contributes when clipped against the
\* line through (x1, y1), (x2, y2).
ClipEdge(poly_points, n, x1, y1, x2, y2) ==
  LET k     == (n % Len(poly_points)) + 1
      ix    == poly_points[n][1]
      iy    == poly_points[n][2]
      kx    == poly_points[k][1]
      ky    == poly_points[k][2]
      i_pos == (x2 - x1) * (iy - y1) - (y2 - y1) * (ix - x1)
      k_pos == (x2 - x1) * (ky - y1) - (y2 - y1) * (kx - x1)
      cut   == << xIntersect(x1, y1, x2, y2, ix, iy, kx, ky),
                  yIntersect(x1, y1, x2, y2, ix, iy, kx, ky) >>
  IN  IF i_pos < 0 /\ k_pos < 0 THEN << <<kx, ky>> >>
      ELSE IF i_pos >= 0 /\ k_pos < 0 THEN << cut, <<kx, ky>> >>
      ELSE IF i_pos < 0 /\ k_pos >= 0 THEN << cut >>
      ELSE << >>

RECURSIVE ClipUpTo(_, _, _, _, _, _)
ClipUpTo(poly_points, n, x1, y1, x2, y2) ==
  IF n = 0 THEN << >>
  ELSE ClipUpTo(poly_points, n - 1, x1, y1, x2, y2)
       \o ClipEdge(poly_points, n, x1, y1, x2, y2)

\* clip(poly_points, x1, y1, x2, y2)
clip(poly_points, x1, y1, x2, y2) ==
  ClipUpTo(poly_points, Len(poly_points), x1, y1, x2, y2)

RECURSIVE ClipAgainst(_, _, _)
ClipAgainst(poly_points_vector, clipper_points, n) ==
  IF n = 0 THEN poly_points_vector
  ELSE LET k == (n % Len(clipper_points)) + 1
       IN  clip(ClipAgainst(poly_points_vector, clipper_points, n - 1),
                clipper_points[n][1], clipper_points[n][2],
                clipper_points[k][1], clipper_points[k][2])

sutherlandHodgmanClip(poly_points_vector, clipper_points) ==
  ClipAgainst(poly_points_vector, clipper_points, Len(clipper_points))

\* iou(box1, box2) as the fraction <<area_overlap, union>>.
iou(box1, box2) ==
  LET box_as_vector   == boundingBox3DToTopDown(box1)
      box_as_vector_2 == boundingBox3DToTopDown(box2)
      clipped_vector  == sutherlandHodgmanClip(box_as_vector, box_as_vector_2)
      area_poly1      == polygonArea(box_as_vector)
      area_poly2      == polygonArea(box_as_vector_2)
      area_overlap    == polygonArea(clipped_vector)
  IN  << area_overlap, area_poly1 + area_poly2 - area_overlap >>

\* a < b for two fractions with positive denominators.
FracLess(a, b) == a[1] * b[2] < b[1] * a[2]

\* clip(n, lower, upper)
clipInt(n, lower, upper) == Max(lower, Min(n, upper))

\* ------------------------------------------------------------------------
\* float arithmetic (IEEE-754 binary32, round to nearest, ties to even)
\* ------------------------------------------------------------------------
\* A float is <<m, e>> with the value m * 2^e.  An integer of magnitude
\* below 2^24 is <<m, 0>>; every other value has 2^23 <= |m| < 2^24.
\* Overflow, underflow, infinities and NaN are outside the values of the
\* model.
Two23 == 2^23

Two24 == 2^24

\* The float of an integer of magnitude below 2^24.
F(n) == <<n, 0>>

\* Op applied to the value of x (of x and y): the operands are evaluated
\* once, before the operation.
Let1(x, Op(_)) == CHOOSE r \in { Op(v) : v \in {x} } : TRUE

Let2(x, y, Op(_, _)) == CHOOSE r \in { Op(u, v) : u \in {x}, v \in {y} } : TRUE

BitLen(n) == CHOOSE b \in 1..30 : 2^(b - 1) <= n /\ n < 2^b

\* The float of sign s and magnitude m * 2^e, for 2^23 <= m < 2^24.
Canon(s, m, e) ==
  IF e < 0 /\ e >= -23 /\ m % 2^(-e) = 0 THEN <<s * (m \div 2^(-e)), 0>>
  ELSE <<s * m, e>>

\* Rounding of t = <<s, n, e, sticky>>, n having b bits.
RoundBits(t, b) ==
  IF b <= 24 THEN Canon(t[1], t[2] * 2^(24 - b), t[3] - (24 - b))
  ELSE LET k  == b - 24
           q  == t[2] \div 2^k
           r  == t[2] % 2^k
           up == \/ r > 2^(k - 1)
                 \/ r = 2^(k - 1) /\ (t[4] \/ q % 2 = 1)
       IN  IF up /\ q + 1 = Two24 THEN Canon(t[1], Two23, t[3] + k + 1)
           ELSE Canon(t[1], IF up THEN q + 1 ELSE q, t[3] + k)

RoundV(t) ==
  IF t[2] = 0 THEN F(0)
  ELSE Let1(BitLen(t[2]), LAMBDA b : RoundBits(t, b))

\* s * (n + t) * 2^e rounded to a float, for 0 <= n < 2^30 and 0 <= t < 1;
\* sticky tells whether t > 0.
Round(s, n, e, sticky) == Let1(<<s, n, e, sticky>>, RoundV)

Sign(a) == IF a[1] < 0 THEN -1 ELSE 1

\* <<sign, |m|, e>> with 2^23 <= |m| < 2^24, for a float other than 0.
Norm(a) ==
  IF Abs(a[1]) >= Two23 THEN <<Sign(a), Abs(a[1]), a[2]>>
  ELSE Let1(BitLen(Abs(a[1])),
            LAMBDA b : <<Sign(a), Abs(a[1]) * 2^(24 - b), a[2] - (24 - b)>>)

FNeg(a) == Let1(a, LAMBDA v : <<-v[1], v[2]>>)

FAbs(a) == Let1(a, LAMBDA v : <<Abs(v[1]), v[2]>>)

\* The sum of two normalised operands, hi having the larger exponent: lo is
\* aligned to hi with two guard bits and a sticky bit.
AddOrdered(hi, lo) ==
  LET d      == hi[3] - lo[3]
      A      == hi[2] * 4
      B      == (lo[2] * 4) \div 2^d
      sticky == (lo[2] * 4) % 2^d # 0
      S      == IF hi[1] = lo[1] THEN A + B
                ELSE IF sticky THEN A - B - 1
                ELSE A - B
  IN  IF d >= 27 THEN Canon(hi[1], hi[2], hi[3])
      ELSE IF S < 0 THEN Round(-hi[1], -S, hi[3] - 2, sticky)
      ELSE Round(hi[1], S, hi[3] - 2, sticky)

AddNorm(na, nb) ==
  IF na[3] >= nb[3] THEN AddOrdered(na, nb) ELSE AddOrdered(nb, na)

FAddV(a, b) ==
  IF a[2] = 0 /\ b[2] = 0 /\ Abs(a[1] + b[1]) < Two24 THEN F(a[1] + b[1])
  ELSE IF a[1] = 0 THEN b
  ELSE IF b[1] = 0 THEN a
  ELSE Let2(Norm(a), Norm(b), AddNorm)

\* a + b
FAdd(a, b) == Let2(a, b, FAddV)

\* a - b
FSub(a, b) == FAdd(a, FNeg(b))

\* The product of two normalised operands: the 48-bit product of the
\* mantissas in two halves H, L.
MulNorm(na, nb) ==
  LET x1  == na[2] \div 4096
      x0  == na[2] % 4096
      y1  == nb[2] \div 4096
      y0  == nb[2] % 4096
      mid == x1 * y0 + x0 * y1
      low == x0 * y0 + (mid % 4096) * 4096
      L   == low % Two24
      H   == x1 * y1 + mid \div 4096 + low \div Two24
  IN  Round(na[1] * nb[1], H * 4 + L \div 2^22, na[3] + nb[3] + 22,
            L % 2^22 # 0)

FMulV(a, b) ==
  IF a[2] = 0 /\ b[2] = 0 /\ Abs(a[1]) < 4096 /\ Abs(b[1]) < 4096
  THEN F(a[1] * b[1])
  ELSE IF a[1] = 0 \/ b[1] = 0 THEN F(0)
  ELSE Let2(Norm(a), Norm(b), MulNorm)

\* a * b
FMul(a, b) == Let2(a, b, FMulV)

\* One step of the long division by d: st = <<quotient, remainder>>, k new
\* quotient bits.
DivStep(st, d, k) ==
  <<st[1] * 2^k + (st[2] * 2^k) \div d, (st[2] * 2^k) % d>>

\* The quotient of two normalised operands: 26 quotient bits, then rounding.
DivNorm(na, nb) ==
  Let1(DivStep(DivStep(DivStep(DivStep(<<na[2] \div nb[2], na[2] % nb[2]>>,
                                       nb[2], 7), nb[2], 7), nb[2], 7),
               nb[2], 4),
       LAMBDA st : Round(na[1] * nb[1], st[1], na[3] - nb[3] - 25, st[2] # 0))

FDivV(a, b) ==
  IF a[2] = 0 /\ b[2] = 0 /\ Abs(a[1]) % Abs(b[1]) = 0
  THEN F(Sign(a) * Sign(b) * (Abs(a[1]) \div Abs(b[1])))
  ELSE IF a[1] = 0 THEN F(0)
  ELSE Let2(Norm(a), Norm(b), DivNorm)

\* a / b for b # 0
FDiv(a, b) == Let2(a, b, FDivV)

FLessV(a, b) ==
  IF a[2] = 0 /\ b[2] = 0 THEN a[1] < b[1] ELSE FSub(a, b)[1] < 0

\* a < b
FLess(a, b) == Let2(a, b, FLessV)

\* ------------------------------------------------------------------------
\* Geometry in float arithmetic, for boxes of any yaw
\* ------------------------------------------------------------------------
\* std::cos, std::sin of the float nearest to the angle.
Cos_f32(angle) == CASE angle = 0 -> F(1)
                    [] angle = 500000 -> <<14723392, -24>>

Sin_f32(angle) == CASE angle = 0 -> F(0)
                    [] angle = 500000 -> <<16086852, -25>>

\* 0.5 * v
Half_f32(v) == FMul(<<Two23, -24>>, v)

rotatedX_f32(x, y, angle) ==
  FSub(FMul(x, Cos_f32(angle)), FMul(y, Sin_f32(angle)))

rotatedY_f32(x, y, angle) ==
  FAdd(FMul(x, Sin_f32(angle)), FMul(y, Cos_f32(angle)))

\* The four corners of box1, hl and hw being 0.5 * length and 0.5 * width.
Corners(box1, hl, hw) ==
  << << FAdd(rotatedX_f32(FNeg(hl), hw, box1.yaw), F(box1.x)),
        FAdd(rotatedY_f32(FNeg(hl), hw, box1.yaw), F(box1.y)) >>,
     << FAdd(rotatedX_f32(hl, hw, box1.yaw), F(box1.x)),
        FAdd(rotatedY_f32(hl, hw, box1.yaw), F(box1.y)) >>,
     << FAdd(rotatedX_f32(hl, FNeg(hw), box1.yaw), F(box1.x)),
        FAdd(rotatedY_f32(hl, FNeg(hw), box1.yaw), F(box1.y)) >>,
     << FAdd(rotatedX_f32(FNeg(hl), FNeg(hw), box1.yaw), F(box1.x)),
        FAdd(rotatedY_f32(FNeg(hl), FNeg(hw), box1.yaw), F(box1.y)) >> >>

boundingBox3DToTopDown_f32(box1) ==
  Let2(Half_f32(F(box1.length)), Half_f32(F(box1.width)),
       LAMBDA hl, hw : Corners(box1, hl, hw))

\* den of the two intersection routines.
IntersectDen(x1, y1, x2, y2, x3, y3, x4, y4) ==
  FSub(FMul(FSub(x1, x2), FSub(y3, y4)), FMul(FSub(y1, y2), FSub(x3, x4)))

\* num / den; the boxes of the model never make den = 0.
xIntersect_f32(x1, y1, x2, y2, x3, y3, x4, y4) ==
  LET num == FSub(FMul(FSub(FMul(x1, y2), FMul(y1, x2)), FSub(x3, x4)),
                  FMul(FSub(x1, x2), FSub(FMul(x3, y4), FMul(y3, x4))))
  IN  FDiv(num, IntersectDen(x1, y1, x2, y2, x3, y3, x4, y4))

yIntersect_f32(x1, y1, x2, y2, x3, y3, x4, y4) ==
  LET num == FSub(FMul(FSub(FMul(x1, y2), FMul(y1, x2)), FSub(y3, y4)),
                  FMul(FSub(y1, y2), FSub(FMul(x3, y4), FMul(y3, x4))))
  IN  FDiv(num, IntersectDen(x1, y1, x2, y2, x3, y3, x4, y4))

\* area after the first n iterations of the shoelace loop.
RECURSIVE ShoelaceSum_f32(_, _)
ShoelaceSum_f32(polygon, n) ==
  IF n = 0 THEN F(0)
  ELSE LET j == IF n = 1 THEN Len(polygon) ELSE n - 1
       IN  FAdd(ShoelaceSum_f32(polygon, n - 1),
                FMul(FAdd(polygon[j][1], polygon[n][1]),
                     FSub(polygon[j][2], polygon[n][2])))

polygonArea_f32(polygon) ==
  Let1(polygon, LAMBDA p : FAbs(Half_f32(ShoelaceSum_f32(p, Len(p)))))

\* The points the polygon edge from pt_i to pt_k contributes, i_pos and
\* k_pos being the positions of the two points relative to the clip line l.
ClipCases(pt_i, pt_k, l, i_pos, k_pos) ==
  IF i_pos[1] < 0 /\ k_pos[1] < 0 THEN << pt_k >>
  ELSE IF i_pos[1] >= 0 /\ k_pos[1] < 0
  THEN << << xIntersect_f32(l[1], l[2], l[3], l[4],
                            pt_i[1], pt_i[2], pt_k[1], pt_k[2]),
             yIntersect_f32(l[1], l[2], l[3], l[4],
                            pt_i[1], pt_i[2], pt_k[1], pt_k[2]) >>,
          pt_k >>
  ELSE IF i_pos[1] < 0 /\ k_pos[1] >= 0
  THEN << << xIntersect_f32(l[1], l[2], l[3], l[4],
                            pt_i[1], pt_i[2], pt_k[1], pt_k[2]),
             yIntersect_f32(l[1], l[2], l[3], l[4],
                            pt_i[1], pt_i[2], pt_k[1], pt_k[2]) >> >>
  ELSE << >>

\* (x2 - x1) * (py - y1) - (y2 - y1) * (px - x1) for the clip line
\* l = <<x1, y1, x2, y2>> and the point p.
Position(l, p) ==
  FSub(FMul(FSub(l[3], l[1]), FSub(p[2], l[2])),
       FMul(FSub(l[4], l[2]), FSub(p[1], l[1])))

\* The n-th iteration of the loop of clip.
ClipEdge_f32(poly_points, n, l) ==
  Let2(Position(l, poly_points[n]),
       Position(l, poly_points[(n % Len(poly_points)) + 1]),
       LAMBDA i_pos, k_pos :
         ClipCases(poly_points[n], poly_points[(n % Len(poly_points)) + 1],
                   l, i_pos, k_pos))

RECURSIVE ClipUpTo_f32(_, _, _)
ClipUpTo_f32(poly_points, n, l) ==
  IF n = 0 THEN << >>
  ELSE ClipUpTo_f32(poly_points, n - 1, l) \o ClipEdge_f32(poly_points, n, l)

clip_f32(poly_points, x1, y1, x2, y2) ==
  Let2(poly_points, <<x1, y1, x2, y2>>,
       LAMBDA p, l : ClipUpTo_f32(p, Len(p), l))

RECURSIVE ClipAgainst_f32(_, _, _)
ClipAgainst_f32(poly_points_vector, clipper_points, n) ==
  IF n = 0 THEN poly_points_vector
  ELSE clip_f32(ClipAgainst_f32(poly_points_vector, clipper_points, n - 1),
                clipper_points[n][1], clipper_points[n][2],
                clipper_points[(n % Len(clipper_points)) + 1][1],
                clipper_points[(n % Len(clipper_points)) + 1][2])

sutherlandHodgmanClip_f32(poly_points_vector, clipper_points) ==
  ClipAgainst_f32(poly_points_vector, clipper_points, Len(clipper_points))

\* area_overlap / (area_poly1 + area_poly2 - area_overlap)
OverlapRatio(area_poly1, area_poly2, area_overlap) ==
  FDiv(area_overlap, FSub(FAdd(area_poly1, area_poly2), area_overlap))

IouOfPolygons(box_as_vector, box_as_vector_2) ==
  Let1(polygonArea_f32(sutherlandHodgmanClip_f32(box_as_vector,
                                                 box_as_vector_2)),
       LAMBDA area_overlap :
         OverlapRatio(polygonArea_f32(box_as_vector),
                      polygonArea_f32(box_as_vector_2), area_overlap))

\* iou(box1, box2) as a float.
iou_f32(box1, box2) ==
  Let2(boundingBox3DToTopDown_f32(box1), boundingBox3DToTopDown_f32(box2),
       IouOfPolygons)

\* ------------------------------------------------------------------------
\* Inputs of createPillarsTarget
\* ------------------------------------------------------------------------
\* Grid of the target encoder: cells of 4 x 4 (step 2, downscaling 2); the
\* extents 18 and 10 are not multiples of the cell size.
TargetGrid ==
  [xMin |-> 0, xMax |-> 18, xStep |-> 2,
   yMin |-> 0, yMax |-> 10, yStep |-> 2,
   zMin |-> -2, zMax |-> 2]

Label(x, y, z, l, w, h, c) ==
  [x |-> x, y |-> y, z |-> z, length |-> l, width |-> w, height |-> h,
   yaw |-> 0, classId |-> c]

\* Ground-truth rows: on the world coordinate of a cell, between two cells, nearer to the
\* next cell than to its own, beyond the last cell in x and in y, and outside
\* the bounds.
LabelPool ==
  { Label(4, 4, 0, 2, 2, 2, 1),
    Label(1, 0, 1, 2, 2, 2, 2),
    Label(3, 0, 0, 4, 2, 4, 1),
    Label(16, 8, 0, 2, 2, 2, 2),
    Label(20, 0, 0, 2, 2, 2, 1) }

Anchor(l, w, h, z) == [length |-> l, width |-> w, height |-> h, z |-> z, yaw |-> 0]

AnchorPool == { Anchor(2, 2, 2, 0), Anchor(4, 2, 2, 1) }

\* (positiveThreshold, negativeThreshold) as fractions.
ThresholdPairs == { << <<1, 2>>, <<1, 4>> >>, << <<1, 1>>, <<1, 2>> >> }

AngleThresholds == {500000}

InitTarget ==
  /\ pc = "t_start"
  /\ objects \in SeqsUpTo(LabelPool, MaxObjects)
  /\ anchors \in SeqsUpTo(AnchorPool, MaxAnchors)
  /\ \E th \in ThresholdPairs :
       positiveThreshold = th[1] /\ negativeThreshold = th[2]
  /\ angle_threshold \in AngleThresholds
  /\ downscalingFactor = 2
  /\ grid = TargetGrid
  /\ tensor = NoMap
  /\ outcome = "running"
  /\ points = <<>>
  /\ cols = 4
  /\ maxPointsPerPillar = 0
  /\ maxPillars = 0
  /\ minDistance = -1
  /\ i = 0
  /\ map = NoMap
  /\ indices = <<>>
  /\ pillarId = 0
  /\ emitted = <<>>
  /\ TargetIdle
  /\ CallIdle

\* ------------------------------------------------------------------------
\* createPillarsTarget
\* ------------------------------------------------------------------------
nbAnchors == Len(anchors)

nbObjects == Len(objects)

xSize ==
  FloorDiv(FloatSub(grid.xMax, grid.xMin), grid.xStep * downscalingFactor)

ySize ==
  FloorDiv(FloatSub(grid.yMax, grid.yMin), grid.yStep * downscalingFactor)

\* if (nbAnchors <= 0) throw
RejectNoAnchors ==
  /\ pc = "t_start"
  /\ nbAnchors <= 0
  /\ pc' = "done"
  /\ outcome' = "input_error"
  /\ UNCHANGED <<grid, tensor, pillarVars, targetVars, callVars>>

\* Variant: an empty object array yields an empty result instead of an error.
RejectNoObjects_Accepted ==
  /\ pc = "t_start"
  /\ nbAnchors > 0
  /\ nbObjects <= 0
  /\ pc' = "done"
  /\ outcome' = "returned"
  /\ UNCHANGED <<grid, tensor, pillarVars, targetVars, callVars>>

\* if (nbObjects <= 0) throw
RejectNoObjects ==
  /\ pc = "t_start"
  /\ nbAnchors > 0
  /\ nbObjects <= 0
  /\ pc' = "done"
  /\ outcome' = "input_error"
  /\ UNCHANGED <<grid, tensor, pillarVars, targetVars, callVars>>

AnchorBox(a) ==
  [x |-> 0, y |-> 0, z |-> a.z, length |-> a.length, width |-> a.width,
   height |-> a.height, yaw |-> a.yaw, base_yaw |-> a.yaw, classId |-> 0]

LabelBox(o) ==
  [x |-> o.x, y |-> o.y, z |-> o.z, length |-> o.length, width |-> o.width,
   height |-> o.height, yaw |-> o.yaw, base_yaw |-> 0, classId |-> o.classId]

\* Variant: no ground-truth box is skipped.
OutsideGrid_Never(o) == FALSE

\* The centre test of the label loop.
OutsideGrid(o) ==
  o.x < grid.xMin \/ o.x >= grid.xMax \/ o.y < grid.yMin \/ o.y >= grid.yMax

RECURSIVE RetainedBoxes(_, _)
RetainedBoxes(objs, n) ==
  IF n = 0 THEN << >>
  ELSE IF OutsideGrid(objs[n]) THEN RetainedBoxes(objs, n - 1)
  ELSE Append(RetainedBoxes(objs, n - 1), LabelBox(objs[n]))

\* Channels 0..9 of an entry are the components 1..10.  Channels 1, 2 are
\* <<n, d>> for n / sqrt(d), channel 3 is <<n, d>> for n / d, channels 4..6
\* are <<n, d>> for log(n / d), channel 7 is the argument of the sine.
ZeroEntry ==
  << 0, <<0, 1>>, <<0, 1>>, <<0, 1>>, <<1, 1>>, <<1, 1>>, <<1, 1>>, 0, 0, 0 >>

TensorIndex ==
  (0..(nbObjects - 1)) \X (0..(xSize - 1)) \X (0..(ySize - 1))
    \X (0..(nbAnchors - 1))

\* The two parse loops, tensor.resize and the zero fill.
ParseInputs ==
  /\ pc = "t_start"
  /\ nbAnchors > 0
  /\ nbObjects > 0
  /\ anchorBoxes' = [k \in 1..nbAnchors |-> AnchorBox(anchors[k])]
  /\ labelBoxes' = RetainedBoxes(objects, nbObjects)
  /\ tensor' = [e \in TensorIndex |-> ZeroEntry]
  /\ objectCount' = 0
  /\ pc' = "t_object"
  /\ UNCHANGED <<grid, outcome, pillarVars, callVars, targetInputs, cursor, maxIou,
                 bestAnchor, bestAnchorId, searched, fallbacks>>

\* std::pow(width, 2) + std::pow(length, 2)
Diag2(box) == box.width * box.width + box.length * box.length

\* ceil(sqrt(d2) / step): the least k with (k * step)^2 >= d2.
RECURSIVE CeilSqrtDiv(_, _, _)
CeilSqrtDiv(d2, step, k) ==
  IF (k * step) * (k * step) >= d2 THEN k ELSE CeilSqrtDiv(d2, step, k + 1)

\* The search window of a label box.
Window(labelBox) ==
  LET offset == CeilSqrtDiv(Diag2(labelBox), grid.xStep * downscalingFactor, 0)
      xC == FloorDiv(FloatSub(labelBox.x, grid.xMin),
                     grid.xStep * downscalingFactor)
      yC == FloorDiv(FloatSub(labelBox.y, grid.yMin),
                     grid.yStep * downscalingFactor)
  IN  [xStart |-> clipInt(xC - offset, 0, xSize),
       xEnd   |-> clipInt(xC + offset, 0, xSize),
       yStart |-> clipInt(yC - offset, 0, ySize),
       yEnd   |-> clipInt(yC + offset, 0, ySize)]

\* Number of iterations of the loop nest over xId, yId and the anchors.
SearchLen(labelBox) ==
  LET w == Window(labelBox)
  IN  Max(w.xEnd - w.xStart, 0) * Max(w.yEnd - w.yStart, 0) * nbAnchors

\* The n-th iteration (from 0) of the loop nest.
Candidate(labelBox, n) ==
  LET w  == Window(labelBox)
      ny == w.yEnd - w.yStart
  IN  [xId         |-> w.xStart + (n \div (nbAnchors * ny)),
       yId         |-> w.yStart + ((n \div nbAnchors) % ny),
       anchorCount |-> n % nbAnchors]

\* xId * xStep * downscalingFactor + xMin
WorldX(xId) == xId * grid.xStep * downscalingFactor + grid.xMin

WorldY(yId) == yId * grid.yStep * downscalingFactor + grid.yMin

\* The anchor moved to the candidate cell and turned to the label's yaw when
\* the yaws differ by less than angle_threshold.
PlaceAnchor(anchorBox, labelBox, x, y) ==
  LET delta_yaw_no == FMod(labelBox.yaw - anchorBox.base_yaw, PiMicro)
  IN  [anchorBox EXCEPT
         !.x = x, !.y = y,
         !.yaw = IF \/ Abs(delta_yaw_no) < angle_threshold
                    \/ (PiMicro - Abs(delta_yaw_no)) < angle_threshold
                 THEN labelBox.yaw ELSE anchorBox.base_yaw]

\* The argument of the sine of channel 7.
SinArg(delta_yaw_no) ==
  IF 2 * Abs(delta_yaw_no) > PiMicro THEN -delta_yaw_no ELSE delta_yaw_no

\* Variant: the two comparisons are joined by "or".
FlipFlag_Or(delta_yaw_o) ==
  IF 2 * Abs(delta_yaw_o) < PiMicro \/ 2 * Abs(delta_yaw_o) > 3 * PiMicro
  THEN 1 ELSE 0

\* Channel 8.
FlipFlag(delta_yaw_o) ==
  IF 2 * Abs(delta_yaw_o) < PiMicro /\ 2 * Abs(delta_yaw_o) > 3 * PiMicro
  THEN 1 ELSE 0

\* The ten channels written for a positive match against box placed at
\* (x, y) with squared diagonal d2.
RegressionEntry(labelBox, box, x, y, d2) ==
  << 1,
     << labelBox.x - x, d2 >>,
     << labelBox.y - y, d2 >>,
     << labelBox.z - box.z, box.height >>,
     << labelBox.length, box.length >>,
     << labelBox.width, box.width >>,
     << labelBox.height, box.height >>,
     SinArg(FMod(labelBox.yaw - box.base_yaw, PiMicro)),
     FlipFlag(FMod(labelBox.yaw - box.base_yaw, 2 * PiMicro)),
     labelBox.classId >>

\* Variant: an IOU equal to the threshold counts as positive.
IsPositive_Inclusive(iouOverlap) == ~FracLess(iouOverlap, positiveThreshold)

\* iouOverlap > positiveThreshold
IsPositive(iouOverlap) == FracLess(positiveThreshold, iouOverlap)

\* iouOverlap < negativeThreshold
IsNegative(iouOverlap) == FracLess(iouOverlap, negativeThreshold)

\* The writes of one iteration of the search loop.
SearchWrite(t, idx, labelBox, anchorBox, iouOverlap) ==
  IF IsPositive(iouOverlap)
  THEN [t EXCEPT ![idx] = RegressionEntry(labelBox, anchorBox, anchorBox.x,
                                          anchorBox.y, Diag2(anchorBox))]
  ELSE IF IsNegative(iouOverlap) THEN [t EXCEPT ![idx][1] = 0]
  ELSE [t EXCEPT ![idx][1] = -1]

\* for (const auto &labelBox : labelBoxes): the locals of one iteration.
BeginObject ==
  /\ pc = "t_object"
  /\ objectCount < Len(labelBoxes)
  /\ maxIou' = <<0, 1>>
  /\ bestAnchor' = ZeroBox
  /\ bestAnchorId' = 0
  /\ cursor' = 0
  /\ pc' = "t_search"
  /\ UNCHANGED <<grid, tensor, outcome, pillarVars, callVars, targetInputs, labelBoxes,
                 anchorBoxes, objectCount, searched, fallbacks>>

\* One iteration of the loop over the anchors, inside the loops over the
\* cells of the window.
SearchStep ==
  /\ pc = "t_search"
  /\ cursor < SearchLen(labelBoxes[objectCount + 1])
  /\ \E c \in { Candidate(labelBoxes[objectCount + 1], cursor) } :
     \E anchorBox \in { PlaceAnchor(anchorBoxes[c.anchorCount + 1],
                                    labelBoxes[objectCount + 1],
                                    WorldX(c.xId), WorldY(c.yId)) } :
     \E iouOverlap \in { iou(anchorBox, labelBoxes[objectCount + 1]) } :
       LET labelBox == labelBoxes[objectCount + 1]
           idx      == <<objectCount, c.xId, c.yId, c.anchorCount>>
           better   == FracLess(maxIou, iouOverlap)
       IN  /\ anchorBoxes' =
                [anchorBoxes EXCEPT ![c.anchorCount + 1] = anchorBox]
           /\ maxIou' = IF better THEN iouOverlap ELSE maxIou
           /\ bestAnchor' = IF better THEN anchorBox ELSE bestAnchor
           /\ bestAnchorId' = IF better THEN c.anchorCount ELSE bestAnchorId
           /\ tensor' =
                SearchWrite(tensor, idx, labelBox, anchorBox, iouOverlap)
           /\ searched' =
                IF idx \in DOMAIN searched
                THEN [searched EXCEPT ![idx].count = @ + 1,
                                      ![idx].label = tensor'[idx][1],
                                      ![idx].iou = iouOverlap]
                ELSE searched
                       @@ (idx :> [count |-> 1, label |-> tensor'[idx][1],
                                   iou |-> iouOverlap])
  /\ cursor' = cursor + 1
  /\ UNCHANGED <<pc, grid, outcome, pillarVars, callVars, targetInputs, labelBoxes,
                 objectCount, fallbacks>>

\* std::floor((labelBox.x - xMin) / (xStep * downscalingFactor))
HomeX(labelBox) ==
  FloorDiv(FloatSub(labelBox.x, grid.xMin), grid.xStep * downscalingFactor)

HomeY(labelBox) ==
  FloorDiv(FloatSub(labelBox.y, grid.yMin), grid.yStep * downscalingFactor)

\* Variant: the forced entry is measured from the best anchor's placement.
FallbackOrigin_BestAnchor(xId, yId) == <<bestAnchor.x, bestAnchor.y>>

\* const float x = xId * xStep * downscalingFactor + xMin, and y.
FallbackOrigin(xId, yId) == <<WorldX(xId), WorldY(yId)>>

\* Variant: a neighbour is written whether or not it is in the grid.
NeighbourInRange_Always(xId_0, yId_0, dx, dy) == TRUE

\* xId_0 + dx >= 0 && xId_0 + dx < xSize && yId_0 + dy >= 0 && ...
NeighbourInRange(xId_0, yId_0, dx, dy) ==
  /\ xId_0 + dx >= 0 /\ xId_0 + dx < xSize
  /\ yId_0 + dy >= 0 /\ yId_0 + dy < ySize

\* The body of the 5 x 5 loop for the n-th offset (from 0), dx outermost.
FallbackWrite(t, labelBox, n) ==
  LET dx    == (n \div 5) - 2
      dy    == (n % 5) - 2
      xId_0 == HomeX(labelBox)
      yId_0 == HomeY(labelBox)
      xId   == clipInt(xId_0 + dx, 0, xSize - 1)
      yId   == clipInt(yId_0 + dy, 0, ySize - 1)
      idx   == <<objectCount, xId, yId, bestAnchorId>>
      o     == FallbackOrigin(xId, yId)
  IN  IF dx = 0 /\ dy = 0
      THEN [t EXCEPT ![idx] = RegressionEntry(labelBox, bestAnchor, o[1], o[2],
                                              Diag2(bestAnchor))]
      ELSE IF NeighbourInRange(xId_0, yId_0, dx, dy)
      THEN [t EXCEPT ![idx][1] = -1]
      ELSE t

RECURSIVE FallbackWrites(_, _, _)
FallbackWrites(t, labelBox, n) ==
  IF n = 0 THEN t
  ELSE FallbackWrite(FallbackWrites(t, labelBox, n - 1), labelBox, n - 1)

\* The search is over and maxIou < positiveThreshold: the 5 x 5 loop, then
\* objectCount++.
Fallback ==
  /\ pc = "t_search"
  /\ cursor = SearchLen(labelBoxes[objectCount + 1])
  /\ FracLess(maxIou, positiveThreshold)
  /\ tensor' = FallbackWrites(tensor, labelBoxes[objectCount + 1], 25)
  /\ fallbacks' = Append(fallbacks,
                         [ran |-> TRUE, maxIou |-> maxIou,
                          bestAnchor |-> bestAnchor,
                          bestAnchorId |-> bestAnchorId,
                          changed |-> { idx \in DOMAIN tensor :
                                          tensor'[idx] # tensor[idx] }])
  /\ objectCount' = objectCount + 1
  /\ pc' = "t_object"
  /\ UNCHANGED <<grid, outcome, pillarVars, callVars, targetInputs, labelBoxes,
                 anchorBoxes, cursor, maxIou, bestAnchor, bestAnchorId,
                 searched>>

\* The search is over and maxIou >= positiveThreshold: objectCount++.
NoFallback ==
  /\ pc = "t_search"
  /\ cursor = SearchLen(labelBoxes[objectCount + 1])
  /\ ~FracLess(maxIou, positiveThreshold)
  /\ fallbacks' = Append(fallbacks,
                         [ran |-> FALSE, maxIou |-> maxIou,
                          bestAnchor |-> bestAnchor,
                          bestAnchorId |-> bestAnchorId, changed |-> {}])
  /\ objectCount' = objectCount + 1
  /\ pc' = "t_object"
  /\ UNCHANGED <<grid, tensor, outcome, pillarVars, callVars, targetInputs, labelBoxes,
                 anchorBoxes, cursor, maxIou, bestAnchor, bestAnchorId,
                 searched>>

\* return tensor
ReturnTarget ==
  /\ pc = "t_object"
  /\ objectCount = Len(labelBoxes)
  /\ pc' = "done"
  /\ outcome' = "returned"
  /\ UNCHANGED <<grid, tensor, pillarVars, targetVars, callVars>>

\* ------------------------------------------------------------------------
\* Properties of createPillarsTarget
\* ------------------------------------------------------------------------
FracEq(a, b) == a[1] * b[2] = b[1] * a[2]

\* Objects whose search loop is over.
SearchedObjects ==
  { o \in 0..(Len(labelBoxes) - 1) :
      \/ o < objectCount
      \/ /\ o = objectCount /\ pc = "t_search"
         /\ cursor = SearchLen(labelBoxes[o + 1]) }

\* The (object, cell, anchor) entries of the search window of object o.
WindowEntries(o) ==
  LET w == Window(labelBoxes[o + 1])
  IN  { <<o, x, y, a>> : x \in w.xStart..(w.xEnd - 1),
                         y \in w.yStart..(w.yEnd - 1),
                         a \in 0..(nbAnchors - 1) }

\* C7: the search loop writes channel 0 of every (object, candidate cell,
\* anchor) entry exactly once: 1 if IOU > positiveThreshold, else 0 if
\* IOU < negativeThreshold, else -1; an IOU equal to positiveThreshold is
\* never labelled 1.
C7_SearchLabels ==
  /\ \A idx \in DOMAIN searched :
       LET e == searched[idx]
       IN  /\ e.count = 1
           /\ e.label = IF FracLess(positiveThreshold, e.iou) THEN 1
                        ELSE IF FracLess(e.iou, negativeThreshold) THEN 0
                        ELSE -1
           /\ FracEq(e.iou, positiveThreshold) => e.label # 1
           /\ (pc = "t_search" /\ idx[1] = objectCount) =>
                tensor[idx][1] = e.label
  /\ \A o \in SearchedObjects : WindowEntries(o) \subseteq DOMAIN searched
  /\ \A idx \in DOMAIN searched : idx \in WindowEntries(idx[1])

C7_Witness ==
  /\ Returned
  /\ \E idx \in DOMAIN searched :
       FracEq(searched[idx].iou, positiveThreshold) /\ searched[idx].label = -1
  /\ \E idx \in DOMAIN searched : searched[idx].label = 1
  /\ \E idx \in DOMAIN searched : searched[idx].label = 0

\* C8: on return (xSize >= 1, ySize >= 1) every retained ground-truth box has
\* at least one entry with label 1 in its slice of the target tensor.
C8_EveryBoxPositive ==
  (Returned /\ xSize >= 1 /\ ySize >= 1) =>
    \A o \in 0..(Len(labelBoxes) - 1) :
      \E idx \in DOMAIN tensor : idx[1] = o /\ tensor[idx][1] = 1

\* The home cell of a processed object, clipped into the grid.
ClippedHome(o) ==
  << clipInt(HomeX(labelBoxes[o + 1]), 0, xSize - 1),
     clipInt(HomeY(labelBoxes[o + 1]), 0, ySize - 1) >>

\* The in-grid cells home + (dx, dy), dx, dy in [-2, 2], not both 0.
Neighbours(o) ==
  { <<HomeX(labelBoxes[o + 1]) + dx, HomeY(labelBoxes[o + 1]) + dy>> :
      dx \in -2..2, dy \in -2..2 }
    \cap { c \in (0..(xSize - 1)) \X (0..(ySize - 1)) :
             c # <<HomeX(labelBoxes[o + 1]), HomeY(labelBoxes[o + 1])>> }

FellBack == { o \in 0..(Len(fallbacks) - 1) : fallbacks[o + 1].ran }

\* What the fallback of object o leaves alone: other objects, other anchors,
\* cells outside the 5 x 5 window.
FallbackFrame(o) ==
  \A idx \in fallbacks[o + 1].changed :
    /\ idx[1] = o
    /\ idx[4] = fallbacks[o + 1].bestAnchorId
    /\ Abs(idx[2] - HomeX(labelBoxes[o + 1])) <= 2
    /\ Abs(idx[3] - HomeY(labelBoxes[o + 1])) <= 2

\* C9: after the fallback of an object, the clipped home cell has label 1 in
\* the best anchor's channel, every other in-grid cell home + (dx, dy) has
\* label -1 there, and nothing else was modified.
C9_FallbackWindow ==
  \A o \in FellBack :
    LET b == fallbacks[o + 1].bestAnchorId
        h == ClippedHome(o)
    IN  /\ tensor[<<o, h[1], h[2], b>>][1] = 1
        /\ \A c \in Neighbours(o) : tensor[<<o, c[1], c[2], b>>][1] = -1
        /\ FallbackFrame(o)

\* C9 as amended: the in-grid cells home + (dx, dy) other than the clipped
\* home cell have label -1 (a home cell beyond the last cell is clipped onto
\* one of its own neighbours, which keeps the forced label 1).
C9_FallbackWindowAmended ==
  \A o \in FellBack :
    LET b == fallbacks[o + 1].bestAnchorId
        h == ClippedHome(o)
    IN  /\ tensor[<<o, h[1], h[2], b>>][1] = 1
        /\ \A c \in Neighbours(o) \ {h} : tensor[<<o, c[1], c[2], b>>][1] = -1
        /\ FallbackFrame(o)

C9_Witness ==
  /\ Returned
  /\ \E o \in FellBack :
       /\ ClippedHome(o) \in Neighbours(o)
       /\ Neighbours(o) \ {ClippedHome(o)} # {}
       /\ xSize > 3

\* C10: the x/y offset channels of the forced positive entry are measured
\* from the best anchor's placement (bestAnchor.x, bestAnchor.y).
C10_OffsetsFromBestAnchor ==
  \A o \in FellBack :
    LET f == fallbacks[o + 1]
        h == ClippedHome(o)
        e == tensor[<<o, h[1], h[2], f.bestAnchorId>>]
    IN  /\ e[2] = <<labelBoxes[o + 1].x - f.bestAnchor.x, Diag2(f.bestAnchor)>>
        /\ e[3] = <<labelBoxes[o + 1].y - f.bestAnchor.y, Diag2(f.bestAnchor)>>

\* C10 as amended: the offsets are measured from the world coordinates of
\* the clipped home cell at which the entry is written (and divided by the
\* best anchor's diagonal).
C10_OffsetsFromHomeCell ==
  \A o \in FellBack :
    LET f == fallbacks[o + 1]
        h == ClippedHome(o)
        e == tensor[<<o, h[1], h[2], f.bestAnchorId>>]
    IN  /\ e[2] = <<labelBoxes[o + 1].x - WorldX(h[1]), Diag2(f.bestAnchor)>>
        /\ e[3] = <<labelBoxes[o + 1].y - WorldY(h[2]), Diag2(f.bestAnchor)>>

C10_Witness ==
  /\ Returned
  /\ \E o \in FellBack :
       /\ FracLess(<<0, 1>>, fallbacks[o + 1].maxIou)
       /\ fallbacks[o + 1].bestAnchor.x # WorldX(ClippedHome(o)[1])

\* The input rows whose centre is inside [xMin, xMax) x [yMin, yMax), in
\* input order.
RetainedRows ==
  SelectSeq(objects,
            LAMBDA o : /\ grid.xMin <= o.x /\ o.x < grid.xMax
                       /\ grid.yMin <= o.y /\ o.y < grid.yMax)

\* C11: a ground-truth box whose centre is outside the bounds is skipped.
\* With R retained boxes, labelBoxes holds them in input order, the k-th one
\* is written only into slice k (its positive entries carry its class and
\* extents), objectCount never exceeds R and ends at R, no write uses a slice
\* >= R, and the slices from R on stay all zero.
C11_SkippedBoxes ==
  (pc \in {"t_object", "t_search"} \/ Returned) =>
    LET R == Len(RetainedRows)
    IN  /\ Len(labelBoxes) = R
        /\ \A k \in 1..R :
             /\ labelBoxes[k].x = RetainedRows[k].x
             /\ labelBoxes[k].y = RetainedRows[k].y
             /\ labelBoxes[k].classId = RetainedRows[k].classId
        /\ objectCount <= R
        /\ Returned => objectCount = R
        /\ \A idx \in DOMAIN tensor :
             /\ tensor[idx] # ZeroEntry => (idx[1] < R /\ idx[1] <= objectCount)
             /\ tensor[idx][1] = 1 =>
                  /\ tensor[idx][10] = RetainedRows[idx[1] + 1].classId
                  /\ tensor[idx][5][1] = RetainedRows[idx[1] + 1].length
                  /\ tensor[idx][6][1] = RetainedRows[idx[1] + 1].width
        /\ \A idx \in DOMAIN searched : idx[1] < R
        /\ \A k \in 1..Len(fallbacks) :
             \A idx \in fallbacks[k].changed : idx[1] = k - 1

C11_Witness ==
  /\ Returned
  /\ Len(objects) >= 2
  /\ objects[1].x >= grid.xMax
  /\ Len(labelBoxes) >= 1
  /\ Len(labelBoxes) < Len(objects)
  /\ \E idx \in DOMAIN tensor :
       /\ idx[1] = 0 /\ tensor[idx][1] = 1
       /\ tensor[idx][10] = objects[2].classId
  /\ \E idx \in DOMAIN tensor : idx[1] >= Len(labelBoxes)

\* C12: with no anchor or no object the call ends in an input error, before
\* the tensor is allocated and before any object is parsed or processed; with
\* at least one anchor and one object it never ends in that error, also when
\* every object is filtered out.
C12_EmptyInputError ==
  /\ (nbAnchors <= 0 \/ nbObjects <= 0) =>
       /\ pc \in {"t_start", "done"}
       /\ pc = "done" => outcome = "input_error"
       /\ tensor = NoMap
       /\ labelBoxes = << >> /\ anchorBoxes = << >>
       /\ objectCount = 0
       /\ searched = NoMap /\ fallbacks = << >>
  /\ (nbAnchors > 0 /\ nbObjects > 0) =>
       /\ outcome # "input_error"
       /\ pc = "done" => outcome = "returned"
       /\ (pc = "t_object" /\ labelBoxes = << >>) => ENABLED ReturnTarget

C12_Witness ==
  /\ pc = "done"
  /\ outcome = "input_error"
  /\ nbAnchors > 0
  /\ nbObjects = 0

\* Anchor type a (from 0) has the extents and the z of retained box k (from
\* 0), and the box has the anchor's base yaw.
SameShape(k, a) ==
  /\ labelBoxes[k + 1].length = anchors[a + 1].length
  /\ labelBoxes[k + 1].width = anchors[a + 1].width
  /\ labelBoxes[k + 1].height = anchors[a + 1].height
  /\ labelBoxes[k + 1].z = anchors[a + 1].z
  /\ labelBoxes[k + 1].yaw = anchors[a + 1].yaw

\* The centre of retained box k is the world coordinate of grid cell c.
OnCell(k, c) ==
  /\ labelBoxes[k + 1].x = c[1] * grid.xStep * downscalingFactor + grid.xMin
  /\ labelBoxes[k + 1].y = c[2] * grid.yStep * downscalingFactor + grid.yMin

\* C13 for boxes and anchors of yaw 0, where the geometry is exact: a box
\* centred on the world coordinate of grid cell (xId, yId) with the extents,
\* z and base yaw of anchor type a, and positiveThreshold < 1:
\* the cell is in the search window, the IOU there is 1, the entry
\* (object, xId, yId, a) has label 1 and channels 1 to 6 equal to 0, and the
\* fallback does not run for the box.
C13_ExactMatch ==
  \A k \in 0..(objectCount - 1) :
    \A c \in (0..(xSize - 1)) \X (0..(ySize - 1)) :
      \A a \in 0..(nbAnchors - 1) :
        (/\ OnCell(k, c) /\ SameShape(k, a)
         /\ FracLess(positiveThreshold, <<1, 1>>)) =>
          LET idx == <<k, c[1], c[2], a>>
              e   == tensor[idx]
          IN  /\ idx \in WindowEntries(k)
              /\ idx \in DOMAIN searched
              /\ searched[idx].iou[1] = searched[idx].iou[2]
              /\ searched[idx].iou[2] > 0
              /\ e[1] = 1
              /\ e[2][1] = 0 /\ e[2][2] > 0
              /\ e[3][1] = 0 /\ e[3][2] > 0
              /\ e[4][1] = 0 /\ e[4][2] > 0
              /\ e[5][1] = e[5][2] /\ e[5][2] > 0
              /\ e[6][1] = e[6][2] /\ e[6][2] > 0
              /\ e[7][1] = e[7][2] /\ e[7][2] > 0
              /\ ~fallbacks[k + 1].ran

C13_Witness ==
  /\ Returned
  /\ FracLess(positiveThreshold, <<1, 1>>)
  /\ \E k \in 0..(objectCount - 1) :
       \E c \in (1..(xSize - 1)) \X (1..(ySize - 1)) :
         \E a \in 0..(nbAnchors - 1) :
           /\ OnCell(k, c) /\ SameShape(k, a)
           /\ tensor[<<k, c[1], c[2], a>>][1] = 1

\* ------------------------------------------------------------------------
\* A single call of iou
\* ------------------------------------------------------------------------
Box(x, y, l, w, yaw) ==
  [x |-> x, y |-> y, z |-> 0, length |-> l, width |-> w, height |-> 2,
   yaw |-> yaw, base_yaw |-> yaw, classId |-> 1]

\* Boxes of yaw 0 (equal centres, touching along an edge, touching at a
\* corner, disjoint, nested) and boxes of yaw 0.5 on the world coordinates
\* of cells.
BoxPool ==
  { Box(0, 0, 2, 2, 0), Box(0, 0, 4, 2, 0), Box(2, 0, 2, 2, 0),
    Box(2, 2, 2, 2, 0), Box(8, 8, 2, 2, 0), Box(0, 0, 6, 4, 0),
    Box(0, 0, 4, 2, 500000), Box(4, 4, 2, 2, 500000),
    Box(4, 4, 4, 2, 500000) }

InitIou ==
  /\ pc = "iou_start"
  /\ boxA \in BoxPool
  /\ boxB \in BoxPool
  /\ result = <<>>
  /\ objects = <<>>
  /\ anchors = <<>>
  /\ positiveThreshold = <<1, 2>>
  /\ negativeThreshold = <<1, 4>>
  /\ angle_threshold = 0
  /\ downscalingFactor = 2
  /\ grid = TargetGrid
  /\ tensor = NoMap
  /\ outcome = "running"
  /\ points = <<>>
  /\ cols = 4
  /\ maxPointsPerPillar = 0
  /\ maxPillars = 0
  /\ minDistance = -1
  /\ i = 0
  /\ map = NoMap
  /\ indices = <<>>
  /\ pillarId = 0
  /\ emitted = <<>>
  /\ TargetIdle

\* iou(boxA, boxB) and iou(boxB, boxA).
ApplyIou ==
  /\ pc = "iou_start"
  /\ result' = <<iou_f32(boxA, boxB), iou_f32(boxB, boxA)>>
  /\ pc' = "iou_done"
  /\ UNCHANGED <<grid, tensor, outcome, pillarVars, targetVars, boxA, boxB>>

\* On boxes of yaw 0 the float geometry and the integer geometry agree.
IntegerGeometryExact ==
  (pc = "iou_done" /\ boxA.yaw = 0 /\ boxB.yaw = 0) =>
    result[1] = FDiv(F(iou(boxA, boxB)[1]), F(iou(boxA, boxB)[2]))

\* 15 / 16, a positiveThreshold below 1.
NearOne == FDiv(F(15), F(16))

\* C13: for a ground-truth box centred on the world coordinate of a cell,
\* and the anchor of the same length, width and yaw placed on that cell, the
\* IOU is 1: it exceeds a positiveThreshold below 1 (15/16), so that the
\* entry gets label 1 in the search loop.
C13_IdenticalBoxIsPositive ==
  ( /\ pc = "iou_done"
    /\ boxA = boxB
    /\ \E c \in (0..(xSize - 1)) \X (0..(ySize - 1)) :
         boxB.x = WorldX(c[1]) /\ boxB.y = WorldY(c[2]) )
  => FLess(NearOne, result[1])

\* 2^-10
Tolerance == <<Two23, -33>>

\* C14: iou(A, B) equals iou(B, A) for every pair of boxes (here: up to a
\* difference of 2^-10).
C14_IouSymmetric ==
  pc = "iou_done" => FLess(FAbs(FSub(result[1], result[2])), Tolerance)

\* ------------------------------------------------------------------------
\* A single encoding of a positive match
\* ------------------------------------------------------------------------
\* Yaws in steps of pi / 4, from -2 pi to 2 pi for MaxYawSteps = 8.
YawPool == { k * (PiMicro \div 4) : k \in -MaxYawSteps..MaxYawSteps }

InitEncode ==
  /\ pc = "enc_start"
  /\ boxA \in { Box(4, 4, 4, 2, yaw) : yaw \in YawPool }
  /\ boxB \in { Box(4, 4, 2, 2, yaw) : yaw \in YawPool }
  /\ result = <<>>
  /\ objects = <<>>
  /\ anchors = <<>>
  /\ positiveThreshold = <<1, 2>>
  /\ negativeThreshold = <<1, 4>>
  /\ angle_threshold = 0
  /\ downscalingFactor = 2
  /\ grid = TargetGrid
  /\ tensor = NoMap
  /\ outcome = "running"
  /\ points = <<>>
  /\ cols = 4
  /\ maxPointsPerPillar = 0
  /\ maxPillars = 0
  /\ minDistance = -1
  /\ i = 0
  /\ map = NoMap
  /\ indices = <<>>
  /\ pillarId = 0
  /\ emitted = <<>>
  /\ TargetIdle

\* The ten channels written for the label box boxB matched against the
\* anchor boxA, as in the search loop and in the fallback.
ApplyEncode ==
  /\ pc = "enc_start"
  /\ result' = RegressionEntry(boxB, boxA, boxA.x, boxA.y, Diag2(boxA))
  /\ pc' = "enc_done"
  /\ UNCHANGED <<grid, tensor, outcome, pillarVars, targetVars, boxA, boxB>>

C16_BestAnchorEvaluated ==
  \A o \in FellBack :
    LET f == fallbacks[o + 1]
        a == anchors[f.bestAnchorId + 1]
    IN  /\ \E idx \in DOMAIN searched :
             /\ idx[1] = o
             /\ idx[4] = f.bestAnchorId
             /\ FracEq(searched[idx].iou, f.maxIou)
             /\ f.bestAnchor.x = WorldX(idx[2])
             /\ f.bestAnchor.y = WorldY(idx[3])
        /\ \A idx \in DOMAIN searched :
             idx[1] = o => ~FracLess(f.maxIou, searched[idx].iou)
        /\ f.bestAnchor.length = a.length
        /\ f.bestAnchor.width = a.width
        /\ f.bestAnchor.height = a.height
        /\ f.bestAnchor.z = a.z
        /\ Diag2(f.bestAnchor) > 0

Next ==
  \/ FallOffEnd
  \/ Bin4
  \/ Bin7
  \/ EmitPillar
  \/ Return

Spec == Init /\ [][Next]_vars

NextTarget ==
  \/ RejectNoAnchors
  \/ RejectNoObjects
  \/ ParseInputs
  \/ BeginObject
  \/ SearchStep
  \/ Fallback
  \/ NoFallback
  \/ ReturnTarget

SpecTarget == InitTarget /\ [][NextTarget]_vars

NextIou == ApplyIou

SpecIou == InitIou /\ [][NextIou]_vars

NextEncode == ApplyEncode

SpecEncode == InitEncode /\ [][NextEncode]_vars

====
